---- MODULE Spec2Model ----
(***************************************************************************)
(* The posting queue of book_bot.py: the sqlite table `queue`, the         *)
(* background auto_post_loop, the /remove and /postnow command handlers    *)
(* and the dialogue handlers that insert into the queue.                   *)
(*                                                                         *)
(* Everything runs on one asyncio event loop, so a handler runs without    *)
(* interruption from one `await` on the network to the next.  Each action  *)
(* below is one such uninterrupted stretch of a coroutine.                 *)
(***************************************************************************)
EXTENDS Integers, Sequences, FiniteSets, TLC

\* ------------------------------------------------------------------ bounds
MaxId == 2        \* at most this many INSERTs are explored
MaxTime == 1      \* the clock runs 0..MaxTime
MaxPostNow == 1   \* /postnow handlers in flight at once (block=False)
MaxCycles == 3    \* cycles counted per record when the channel is down
MaxLeft == 3      \* records in the table when the process is started again
MaxMarks == 3     \* repeated applications of mark_posted that are compared

\* --------------------------------------------------------------- constants
NULL == <<>>           \* SQL NULL / Python None in a text column
NoRow == 0 - 1         \* the posted flag of an id that has no row

Digits == <<"0", "1", "2", "3", "4", "5", "6", "7", "8", "9">>

IsDigit(c) == \E d \in 1..10 : Digits[d] = c

DigitVal(c) == (CHOOSE d \in 1..10 : Digits[d] = c) - 1

AllDigits(s) == \A k \in 1..Len(s) : IsDigit(s[k])

RECURSIVE DigitsVal(_)
DigitsVal(s) ==
    IF Len(s) = 0 THEN 0
    ELSE 10 * DigitsVal(SubSeq(s, 1, Len(s) - 1)) + DigitVal(s[Len(s)])

\* Variant of int that takes a text that is no number as 0.
int_lenient(text) ==
    IF Len(text) >= 2 /\ text[1] \in {"-", "+"} /\ AllDigits(Tail(text))
    THEN IF text[1] = "-" THEN [raised |-> FALSE, value |-> 0 - DigitsVal(Tail(text))]
                          ELSE [raised |-> FALSE, value |-> DigitsVal(Tail(text))]
    ELSE IF Len(text) >= 1 /\ AllDigits(text)
    THEN [raised |-> FALSE, value |-> DigitsVal(text)]
    ELSE [raised |-> FALSE, value |-> 0]

\* int(context.args[0]): an optional sign followed by at least one digit,
\* anything else raises ValueError.  A text is a sequence of characters.
Value(n) == [raised |-> FALSE, value |-> n]
ValueError == [raised |-> TRUE, value |-> 0]

int(text) ==
    IF Len(text) >= 2 /\ text[1] \in {"-", "+"} /\ AllDigits(Tail(text))
    THEN IF text[1] = "-" THEN Value(0 - DigitsVal(Tail(text)))
                          ELSE Value(DigitsVal(Tail(text)))
    ELSE IF Len(text) >= 1 /\ AllDigits(text) THEN Value(DigitsVal(text))
    ELSE ValueError

\* datetime.strptime(text, '%Y-%m-%d %H:%M'): a point in time is a number
\* here, written with one or two digits; any other text raises ValueError.
strptime(text) ==
    IF Len(text) \in 1..2 /\ AllDigits(text) THEN Value(DigitsVal(text))
    ELSE ValueError

\* datetime.isoformat(): the fixed-width, sortable text stored in the table.
isoformat(t) == <<Digits[(t \div 10) + 1], Digits[(t % 10) + 1]>>

\* datetime.fromisoformat(text); a None argument raises TypeError.
fromisoformat(s) == DigitVal(s[1]) * 10 + DigitVal(s[2])

\* json.dumps(list of str): the text as a sequence of tokens.
RECURSIVE dumps_items(_)
dumps_items(q) ==
    IF Len(q) = 0 THEN <<>>
    ELSE IF Len(q) = 1 THEN <<"\"", q[1], "\"">>
    ELSE <<"\"", q[1], "\"", ",">> \o dumps_items(Tail(q))

json_dumps(q) == <<"[">> \o dumps_items(q) \o <<"]">>

\* json.loads of such a text: the string between each pair of quotes.
json_loads(js) == [k \in 1..((Len(js) - 1) \div 4) |-> js[4 * k - 1]]

\* ------------------------------------------------------------------ inputs
\* context.user_data['pending_book'] as the dialogue leaves it: built by
\* process_book_and_get_quotes / generate_persian_reflection with
\* scheduled_time None; rerun_quote_extraction and receive_edited_quotes can
\* leave the quotes list empty.
PendingBooks ==
    { [chat_id |-> 1, title |-> "T", author |-> "A",
       quotes |-> <<"q1", "q2">>, mode |-> "english_quotes", scheduled_time |-> NULL],
      [chat_id |-> 1, title |-> "T", author |-> "A",
       quotes |-> <<>>, mode |-> "persian_reflection", scheduled_time |-> NULL] }

\* Texts an operator may send as the schedule time: time 1 written in two
\* ways, and a text that is no time.
TimeTexts == { <<"1">>, <<"0", "1">>, <<"x">> }

\* context.args of /remove and /postnow: none, an id, "-1", and texts that
\* are no integer ("a", "1a", "-").
ArgLists ==
    { <<>> } \cup { << <<Digits[i + 1]>> >> : i \in 0..(MaxId + 1) }
             \cup { << <<"-", "1">> >>, << <<"a">> >>, << <<"1", "a">> >>, << <<"-">> >> }

VARIABLES
    queue,      \* the table: id -> row, for the ids present
    seq,        \* sqlite_sequence of the AUTOINCREMENT key: largest id ever used
    clock,      \* datetime.datetime.now()
    loopPc,     \* auto_post_loop: "sleep", "await" (in post_book) or "crashed"
    loopNow,    \* its `now` of the current cycle
    loopRows,   \* its cursor.fetchall() of the current cycle
    loopIdx,    \* index in loopRows of the row being posted
    inflight,   \* /postnow handlers awaiting post_book: <<[id, book]>>
    ev,         \* the post_book calls and results of the last step
    attempted,  \* history: ids the loop called post_book for in this cycle
    delivered,  \* history: ids for which a post_book call returned True
    removed,    \* history: ids whose row a /remove deleted
    rounds,     \* history (channel down): id -> cycles begun with the record due
    tries,      \* history (channel down): id -> post_book calls of the loop
    said,       \* the operator handlers' SQL statements and replies of the
                \* last step, or Off in the runs that do not record them
    dialogue,   \* handle_confirmation in its 'post_now' branch: none, or
                \* <<[pc, book]>> awaiting post_book ("post") or awaiting the
                \* edit_message_text of the failure notice ("notice")
    boot        \* history: [owed, cycle], the records that were due and
                \* unposted when the process was started and that the loop
                \* has not handed to post_book since, and whether the loop's
                \* first cycle since then is still to end ("first") or has
                \* ended ("over")

vars == <<queue, seq, clock, loopPc, loopNow, loopRows, loopIdx, inflight,
          ev, attempted, delivered, removed, rounds, tries, said, dialogue,
          boot>>

\* ------------------------------------------------------------------- store
Ids(q) == DOMAIN q

\* Variant of NextRowId for a key declared without AUTOINCREMENT: one more
\* than the largest id in the table now.
NextRowId_max_rowid(q, s) ==
    IF Ids(q) = {} THEN 1
    ELSE (CHOOSE m \in Ids(q) : \A i \in Ids(q) : i <= m) + 1

\* id INTEGER PRIMARY KEY AUTOINCREMENT: one more than the largest id ever used.
NextRowId(q, s) == s + 1

\* add_to_queue: INSERT; posted takes its DEFAULT 0.
add_to_queue(q, s, book) ==
    LET id == NextRowId(q, s)
        row == [chat_id |-> book.chat_id, title |-> book.title,
                author |-> book.author, quotes |-> json_dumps(book.quotes),
                mode |-> book.mode, posted |-> 0,
                scheduled_time |-> book.scheduled_time]
    IN [i \in Ids(q) \cup {id} |-> IF i = id THEN row ELSE q[i]]

\* Variants of mark_posted with a plausible slip each: the WHERE clause left
\* out; an INSERT OR REPLACE in place of the UPDATE; an UPDATE that is never
\* committed.
mark_posted_no_where(q, id) == [i \in Ids(q) |-> [q[i] EXCEPT !.posted = 1]]

mark_posted_upsert(q, id) ==
    [i \in Ids(q) \cup {id} |->
        IF i # id THEN q[i]
        ELSE IF id \in Ids(q) THEN [q[i] EXCEPT !.posted = 1]
        ELSE [chat_id |-> 0, title |-> "", author |-> "", quotes |-> <<"[", "]">>,
              mode |-> "", posted |-> 1, scheduled_time |-> NULL]]

mark_posted_uncommitted(q, id) == q

\* Variant of mark_posted that counts the posts: SET posted = posted + 1.
mark_posted_counts(q, id) ==
    [i \in Ids(q) |-> IF i = id THEN [q[i] EXCEPT !.posted = @ + 1] ELSE q[i]]

\* Variant of mark_posted that also clears the schedule of the posted book:
\* SET posted = 1, scheduled_time = NULL
mark_posted_clears_schedule(q, id) ==
    [i \in Ids(q) |->
        IF i = id THEN [q[i] EXCEPT !.posted = 1, !.scheduled_time = NULL] ELSE q[i]]

\* mark_posted: UPDATE queue SET posted = 1 WHERE id = ?
mark_posted(q, id) ==
    [i \in Ids(q) |-> IF i = id THEN [q[i] EXCEPT !.posted = 1] ELSE q[i]]

\* Variant of delete_from_queue whose DELETE is never committed.
delete_from_queue_uncommitted(q, id) == q

\* Variant of delete_from_queue with a slip in the condition: WHERE id <= ?
delete_from_queue_up_to(q, id) == [i \in {j \in Ids(q) : j > id} |-> q[i]]

\* delete_from_queue: DELETE FROM queue WHERE id = ?
delete_from_queue(q, id) == [i \in Ids(q) \ {id} |-> q[i]]

\* Variant of Ascending for a scan that runs from the last row to the first.
RECURSIVE Ascending_backwards(_)
Ascending_backwards(S) ==
    IF S = {} THEN <<>>
    ELSE LET m == CHOOSE x \in S : \A y \in S : x >= y
         IN <<m>> \o Ascending_backwards(S \ {m})

\* The ids of a set in ascending order (a table scan runs in rowid order).
RECURSIVE Ascending(_)
Ascending(S) ==
    IF S = {} THEN <<>>
    ELSE LET m == CHOOSE x \in S : \A y \in S : x <= y
         IN <<m>> \o Ascending(S \ {m})

\* Variant of get_queue that lists the pending books only: WHERE posted = 0
get_queue_pending(q) ==
    LET order == Ascending({i \in Ids(q) : q[i].posted = 0})
    IN [k \in 1..Len(order) |->
          [id |-> order[k], title |-> q[order[k]].title,
           author |-> q[order[k]].author, posted |-> q[order[k]].posted,
           mode |-> q[order[k]].mode]]

\* get_queue: SELECT id, title, author, posted, mode FROM queue
get_queue(q) ==
    LET order == Ascending(Ids(q))
    IN [k \in 1..Len(order) |->
          [id |-> order[k], title |-> q[order[k]].title,
           author |-> q[order[k]].author, posted |-> q[order[k]].posted,
           mode |-> q[order[k]].mode]]

\* Variant of SelectPending with the posted = 0 condition left out.
SelectPending_any_posted(q) ==
    LET order == Ascending({i \in Ids(q) : q[i].scheduled_time # NULL})
    IN [k \in 1..Len(order) |->
          [id |-> order[k], title |-> q[order[k]].title,
           author |-> q[order[k]].author, quotes |-> q[order[k]].quotes,
           mode |-> q[order[k]].mode]]

\* auto_post_loop's SELECT ... WHERE posted = 0 AND scheduled_time IS NOT NULL
SelectPending(q) ==
    LET order == Ascending({i \in Ids(q) :
                     q[i].posted = 0 /\ q[i].scheduled_time # NULL})
    IN [k \in 1..Len(order) |->
          [id |-> order[k], title |-> q[order[k]].title,
           author |-> q[order[k]].author, quotes |-> q[order[k]].quotes,
           mode |-> q[order[k]].mode]]

\* Variant of SelectBook that makes up an empty book when no row is found.
SelectBook_default_row(q, id) ==
    IF id \in Ids(q)
    THEN << [title |-> q[id].title, author |-> q[id].author,
             quotes |-> q[id].quotes, mode |-> q[id].mode] >>
    ELSE << [title |-> "", author |-> "", quotes |-> <<"[", "]">>, mode |-> ""] >>

\* post_book_now's SELECT title, author, quotes, mode FROM queue WHERE id = ?
\* as the rows found (fetchone() is None when there is none).
SelectBook(q, id) ==
    IF id \in Ids(q)
    THEN << [title |-> q[id].title, author |-> q[id].author,
             quotes |-> q[id].quotes, mode |-> q[id].mode] >>
    ELSE <<>>

\* auto_post_loop's SELECT scheduled_time FROM queue WHERE id = ?
SelectScheduledTime(q, id) ==
    IF id \in Ids(q) THEN << q[id].scheduled_time >> ELSE <<>>

\* book_data of post_book_now and auto_post_loop, from a fetched row.
BookData(row) ==
    [title |-> row.title, author |-> row.author,
     quotes |-> json_loads(row.quotes), mode |-> row.mode]

\* --------------------------------------------------------------- publisher
\* post_book up to its await: building the preview raises IndexError for a
\* reflection with no quotes, which the except clause turns into False.
PreviewRaises(book) == book.mode = "persian_reflection" /\ Len(book.quotes) = 0

\* ------------------------------------------------------------------ events
Ev(op, id, by, posted, ok) ==
    [op |-> op, id |-> id, by |-> by, posted |-> posted, ok |-> ok]

StoredPosted(q, id) == IF id \in Ids(q) THEN q[id].posted ELSE NoRow

\* What an operator's handler does to the outside in one step: the SQL
\* statements it executes (op is the statement, id its parameter) and the
\* text it sends back with reply_text (op "reply"; rows is the list that
\* show_queue writes out).
Said(op, id, text) == [op |-> op, id |-> id, text |-> text, rows |-> <<>>]

Off == << Said("off", 0, "") >>

Note(log, entries) == IF log = Off THEN Off ELSE entries

\* -------------------------------------------------------------------- init
\* The bot after main(): an empty table, nothing in flight, the loop created.
Booted ==
    /\ queue = <<>>
    /\ seq = 0
    /\ clock = 0
    /\ loopPc = "sleep"
    /\ loopNow = 0
    /\ loopRows = <<>>
    /\ loopIdx = 0
    /\ inflight = <<>>
    /\ ev = <<>>
    /\ attempted = <<>>
    /\ delivered = {}
    /\ removed = {}
    /\ rounds = [id \in 1..MaxId |-> 0]
    /\ tries = [id \in 1..MaxId |-> 0]
    /\ dialogue = <<>>
    /\ boot = [owed |-> {}, cycle |-> "first"]

Init == Booted /\ said = Off

\* The same start with the operator's side recorded.
InitAdmin == Booted /\ said = <<>>

\* ----------------------------------------------------------- auto_post_loop
\* The for loop over the fetched rows from row i on, up to the next await:
\* each row's scheduled_time is read again from the table; a row that is due
\* is handed to post_book, which either suspends in send_message or, when
\* the preview raises, returns False at once.  A row with no scheduled_time
\* to read (fetchone() is None) raises TypeError, which nothing catches: the
\* task ends.
RECURSIVE Scan(_, _, _, _)
Scan(rows, i, now, q) ==
    IF i > Len(rows) THEN [pc |-> "sleep", idx |-> 0, ev |-> <<>>, att |-> <<>>]
    ELSE
      LET row == rows[i]
          st == SelectScheduledTime(q, row.id)
      IN IF Len(st) = 0 \/ st[1] = NULL
         THEN [pc |-> "crashed", idx |-> i, ev |-> <<>>, att |-> <<>>]
         ELSE IF now >= fromisoformat(st[1])
         THEN LET call == Ev("publish", row.id, "loop", StoredPosted(q, row.id), "")
              IN IF PreviewRaises(BookData(row))
                 THEN LET rest == Scan(rows, i + 1, now, q)
                      IN [rest EXCEPT
                            !.ev = <<call, Ev("result", row.id, "loop",
                                              StoredPosted(q, row.id), "False")>> \o @,
                            !.att = <<[id |-> row.id, result |-> "False"]>> \o @]
                 ELSE [pc |-> "await", idx |-> i, ev |-> <<call>>,
                       att |-> <<[id |-> row.id, result |-> "await"]>>]
         ELSE Scan(rows, i + 1, now, q)

\* The loop's locals are dead once it reaches asyncio.sleep: they are kept
\* while a cycle runs and dropped when it ends.
Kept(pc, value, none) == IF pc = "sleep" THEN none ELSE value

\* One wake-up of the loop: now, the SELECT, and the rows up to the first await.
LoopCycle ==
    /\ loopPc = "sleep"
    /\ LET rows == SelectPending(queue)
           r == Scan(rows, 1, clock, queue)
       IN /\ loopPc' = r.pc
          /\ loopIdx' = r.idx
          /\ loopNow' = Kept(r.pc, clock, 0)
          /\ loopRows' = Kept(r.pc, rows, <<>>)
          /\ attempted' = Kept(r.pc, r.att, <<>>)
          /\ ev' = r.ev
    /\ UNCHANGED <<dialogue, queue, seq, clock, inflight, delivered, removed>>
    /\ said' = Note(said, <<>>)

\* The result of the attempt the loop is waiting for, written into its log.
Settle(att, result) == [att EXCEPT ![Len(att)].result = result]

\* Variant of LoopPublishOk that forgets mark_posted after the post.
LoopPublishOk_unmarked ==
    /\ loopPc = "await"
    /\ LET id == loopRows[loopIdx].id
           r == Scan(loopRows, loopIdx + 1, loopNow, queue)
       IN /\ delivered' = delivered \cup {id}
          /\ loopPc' = r.pc
          /\ loopIdx' = r.idx
          /\ ev' = <<Ev("result", id, "loop", StoredPosted(queue, id), "True")>> \o r.ev
          /\ loopNow' = Kept(r.pc, loopNow, 0)
          /\ loopRows' = Kept(r.pc, loopRows, <<>>)
          /\ attempted' = Kept(r.pc, Settle(attempted, "True") \o r.att, <<>>)
    /\ said' = Note(said, <<>>)
    /\ UNCHANGED <<dialogue, queue, seq, clock, inflight, removed>>

\* send_message returned: post_book is True, mark_posted, then the next rows.
LoopPublishOk ==
    /\ loopPc = "await"
    /\ LET id == loopRows[loopIdx].id
           q2 == mark_posted(queue, id)
           r == Scan(loopRows, loopIdx + 1, loopNow, q2)
       IN /\ queue' = q2
          /\ delivered' = delivered \cup {id}
          /\ loopPc' = r.pc
          /\ loopIdx' = r.idx
          /\ ev' = <<Ev("result", id, "loop", StoredPosted(queue, id), "True")>> \o r.ev
          /\ loopNow' = Kept(r.pc, loopNow, 0)
          /\ loopRows' = Kept(r.pc, loopRows, <<>>)
          /\ attempted' = Kept(r.pc, Settle(attempted, "True") \o r.att, <<>>)
    /\ UNCHANGED <<dialogue, seq, clock, inflight, removed>>
    /\ said' = Note(said, <<>>)

\* Variant of LoopPublishFail in which the failure ends the cycle (the
\* remaining rows are dropped and the loop goes to sleep).
LoopPublishFail_aborts ==
    /\ loopPc = "await"
    /\ loopPc' = "sleep"
    /\ loopIdx' = 0
    /\ loopNow' = 0
    /\ loopRows' = <<>>
    /\ attempted' = <<>>
    /\ ev' = <<Ev("result", loopRows[loopIdx].id, "loop",
                  StoredPosted(queue, loopRows[loopIdx].id), "False")>>
    /\ UNCHANGED <<dialogue, queue, seq, clock, inflight, delivered, removed>>
    /\ said' = Note(said, <<>>)

\* Variant of LoopPublishFail that gives the record up after the failure, by
\* marking it posted so that no later cycle tries it again.
LoopPublishFail_gives_up ==
    /\ loopPc = "await"
    /\ LET id == loopRows[loopIdx].id
           q2 == mark_posted(queue, id)
           r == Scan(loopRows, loopIdx + 1, loopNow, q2)
       IN /\ queue' = q2
          /\ loopPc' = r.pc
          /\ loopIdx' = r.idx
          /\ ev' = <<Ev("result", id, "loop", StoredPosted(queue, id), "False")>> \o r.ev
          /\ loopNow' = Kept(r.pc, loopNow, 0)
          /\ loopRows' = Kept(r.pc, loopRows, <<>>)
          /\ attempted' = Kept(r.pc, Settle(attempted, "False") \o r.att, <<>>)
    /\ UNCHANGED <<dialogue, seq, clock, inflight, delivered, removed>>
    /\ said' = Note(said, <<>>)

\* Variant of LoopPublishFail for a post_book that lets the exception of
\* send_message through: it ends the loop's task.
LoopPublishFail_raises ==
    /\ loopPc = "await"
    /\ loopPc' = "crashed"
    /\ ev' = <<>>
    /\ said' = Note(said, <<>>)
    /\ UNCHANGED <<dialogue, queue, seq, clock, loopNow, loopRows, loopIdx, inflight,
                   attempted, delivered, removed>>

\* send_message raised: post_book is False, the failure is logged, next rows.
LoopPublishFail ==
    /\ loopPc = "await"
    /\ LET id == loopRows[loopIdx].id
           r == Scan(loopRows, loopIdx + 1, loopNow, queue)
       IN /\ loopPc' = r.pc
          /\ loopIdx' = r.idx
          /\ ev' = <<Ev("result", id, "loop", StoredPosted(queue, id), "False")>> \o r.ev
          /\ loopNow' = Kept(r.pc, loopNow, 0)
          /\ loopRows' = Kept(r.pc, loopRows, <<>>)
          /\ attempted' = Kept(r.pc, Settle(attempted, "False") \o r.att, <<>>)
    /\ UNCHANGED <<dialogue, queue, seq, clock, inflight, delivered, removed>>
    /\ said' = Note(said, <<>>)

\* ------------------------------------------------------------ admin handlers
\* remove_from_queue
RemoveFromQueue(args) ==
    /\ IF Len(args) = 0
       THEN /\ said' = Note(said, << Said("reply", 0, "Usage: /remove [id]") >>)
            /\ UNCHANGED <<queue, removed>>
       ELSE LET book_id_to_remove == int(args[1])
            IN IF book_id_to_remove.raised
               THEN /\ said' = Note(said, << Said("reply", 0, "Invalid ID") >>)
                    /\ UNCHANGED <<queue, removed>>
               ELSE /\ queue' = delete_from_queue(queue, book_id_to_remove.value)
                    /\ removed' = removed \cup ({book_id_to_remove.value} \cap Ids(queue))
                    /\ said' = Note(said,
                          << Said("DELETE", book_id_to_remove.value, ""),
                             Said("reply", book_id_to_remove.value, "Removed book") >>)
    /\ ev' = <<>>
    /\ UNCHANGED <<dialogue, seq, clock, loopPc, loopNow, loopRows, loopIdx, inflight,
                   attempted, delivered>>

\* post_book_now up to its await in post_book, as what it does with the
\* table q: its post_book call and, if post_book returns at once, the result
\* (ev), its SQL statement and reply (said), and the post it is left
\* awaiting (flight: none or one).
post_book_now(q, args) ==
    IF Len(args) = 0
    THEN [ev |-> <<>>, flight |-> <<>>,
          said |-> << Said("reply", 0, "Usage: /postnow [id]") >>]
    ELSE LET book_id == int(args[1])
         IN IF book_id.raised
            THEN [ev |-> <<>>, flight |-> <<>>,
                  said |-> << Said("reply", 0, "Invalid ID") >>]
            ELSE LET found == SelectBook(q, book_id.value)
                     select == Said("SELECT", book_id.value, "")
                     call == Ev("publish", book_id.value, "postnow",
                                StoredPosted(q, book_id.value), "")
                 IN IF Len(found) = 0
                    THEN [ev |-> <<>>, flight |-> <<>>,
                          said |-> << select, Said("reply", 0, "Book not found") >>]
                    ELSE IF PreviewRaises(BookData(found[1]))
                    THEN [ev |-> <<call,
                                   Ev("result", book_id.value, "postnow",
                                      StoredPosted(q, book_id.value), "False")>>,
                          flight |-> <<>>,
                          said |-> << select, Said("reply", 0, "Failed to post") >>]
                    ELSE [ev |-> <<call>>,
                          flight |-> << [id |-> book_id.value,
                                         book |-> BookData(found[1])] >>,
                          said |-> << select >>]

\* The /postnow handler runs up to its await; at most MaxPostNow of them
\* are left awaiting at a time.
PostBookNow(args) ==
    LET r == post_book_now(queue, args)
    IN /\ Len(inflight) + Len(r.flight) <= MaxPostNow
       /\ inflight' = inflight \o r.flight
       /\ ev' = r.ev
       /\ said' = Note(said, r.said)
       /\ UNCHANGED <<dialogue, queue, seq, clock, loopPc, loopNow, loopRows, loopIdx,
                      attempted, delivered, removed>>

Without(s, k) == SubSeq(s, 1, k - 1) \o SubSeq(s, k + 1, Len(s))

\* Variant of PostNowOk that reports the post without marking the book.
PostNowOk_unmarked(k) ==
    /\ k \in 1..Len(inflight)
    /\ delivered' = delivered \cup {inflight[k].id}
    /\ inflight' = Without(inflight, k)
    /\ ev' = <<Ev("result", inflight[k].id, "postnow",
                  StoredPosted(queue, inflight[k].id), "True")>>
    /\ said' = Note(said, << Said("reply", 0, "Book posted now") >>)
    /\ UNCHANGED <<dialogue, queue, seq, clock, loopPc, loopNow, loopRows, loopIdx,
                   attempted, removed>>

\* post_book_now after post_book returned True
PostNowOk(k) ==
    /\ k \in 1..Len(inflight)
    /\ queue' = mark_posted(queue, inflight[k].id)
    /\ delivered' = delivered \cup {inflight[k].id}
    /\ inflight' = Without(inflight, k)
    /\ ev' = <<Ev("result", inflight[k].id, "postnow",
                  StoredPosted(queue, inflight[k].id), "True")>>
    /\ said' = Note(said, << Said("UPDATE", inflight[k].id, ""),
                             Said("reply", 0, "Book posted now") >>)
    /\ UNCHANGED <<dialogue, seq, clock, loopPc, loopNow, loopRows, loopIdx, attempted, removed>>

\* Variant of PostNowFail that marks the book posted whatever post_book said.
PostNowFail_marks(k) ==
    /\ k \in 1..Len(inflight)
    /\ queue' = mark_posted(queue, inflight[k].id)
    /\ inflight' = Without(inflight, k)
    /\ ev' = <<Ev("result", inflight[k].id, "postnow",
                  StoredPosted(queue, inflight[k].id), "False")>>
    /\ said' = Note(said, << Said("UPDATE", inflight[k].id, ""),
                             Said("reply", 0, "Failed to post") >>)
    /\ UNCHANGED <<dialogue, seq, clock, loopPc, loopNow, loopRows, loopIdx,
                   attempted, delivered, removed>>

\* post_book_now after post_book returned False
PostNowFail(k) ==
    /\ k \in 1..Len(inflight)
    /\ inflight' = Without(inflight, k)
    /\ ev' = <<Ev("result", inflight[k].id, "postnow",
                  StoredPosted(queue, inflight[k].id), "False")>>
    /\ said' = Note(said, << Said("reply", 0, "Failed to post") >>)
    /\ UNCHANGED <<dialogue, queue, seq, clock, loopPc, loopNow, loopRows, loopIdx,
                   attempted, delivered, removed>>

\* show_queue is registered twice: for the /queue command and for the
\* "Queue" button of the start menu (callback data queue_show).
Vias == {"command", "button"}

\* show_queue: the rows of get_queue written out, or "Queue is empty", with
\* update.message.reply_text.  The update of a button press carries a
\* callback query and no message: update.message is None and the call
\* raises AttributeError, after get_queue has run and before any reply.
ShowQueue(via) ==
    /\ LET rows == get_queue(queue)
       IN said' = Note(said,
             IF via = "button" THEN << Said("SELECT", 0, "") >>
             ELSE
             << Said("SELECT", 0, ""),
                IF Len(rows) = 0 THEN Said("reply", 0, "Queue is empty")
                ELSE [Said("reply", 0, "Current Queue") EXCEPT !.rows = rows] >>)
    /\ ev' = <<>>
    /\ UNCHANGED <<dialogue, queue, seq, clock, loopPc, loopNow, loopRows, loopIdx, inflight,
                   attempted, delivered, removed>>

\* --------------------------------------------------------- dialogue handlers
\* handle_confirmation, data == 'confirm_add'
ConfirmAdd(book) ==
    /\ seq < MaxId
    /\ queue' = add_to_queue(queue, seq, book)
    /\ seq' = NextRowId(queue, seq)
    /\ ev' = <<>>
    /\ said' = Note(said, << Said("INSERT", NextRowId(queue, seq), ""),
                             Said("reply", 0, "Book added to the queue") >>)
    /\ UNCHANGED <<dialogue, clock, loopPc, loopNow, loopRows, loopIdx, inflight,
                   attempted, delivered, removed>>

\* receive_schedule_time
ReceiveScheduleTime(book, time_str) ==
    LET scheduled_time == strptime(time_str)
    IN /\ IF scheduled_time.raised
          THEN /\ ev' = <<>>
               /\ said' = Note(said, << Said("reply", 0, "Invalid format") >>)
               /\ UNCHANGED <<queue, seq>>
          ELSE /\ seq < MaxId
               /\ queue' = add_to_queue(queue, seq,
                     [book EXCEPT !.scheduled_time = isoformat(scheduled_time.value)])
               /\ seq' = NextRowId(queue, seq)
               /\ ev' = <<>>
               /\ said' = Note(said, << Said("INSERT", NextRowId(queue, seq), ""),
                                        Said("reply", 0, "Book scheduled") >>)
       /\ UNCHANGED <<dialogue, clock, loopPc, loopNow, loopRows, loopIdx, inflight,
                      attempted, delivered, removed>>

\* handle_confirmation, data == 'post_now', up to its await in post_book:
\* post_book is called with the pending book itself, which has no row yet
\* (id 0 in the events).  When the preview raises, post_book returns False at
\* once and the handler goes on to send its failure notice.
DialoguePostNow(book) ==
    /\ dialogue = <<>>
    /\ LET call == Ev("publish", 0, "dialogue", NoRow, "")
       IN IF PreviewRaises(book)
          THEN /\ dialogue' = << [pc |-> "notice", book |-> book] >>
               /\ ev' = <<call, Ev("result", 0, "dialogue", NoRow, "False")>>
          ELSE /\ dialogue' = << [pc |-> "post", book |-> book] >>
               /\ ev' = <<call>>
    /\ said' = Note(said, << Said("reply", 0, "Posting to the channel now") >>)
    /\ UNCHANGED <<queue, seq, clock, loopPc, loopNow, loopRows, loopIdx, inflight,
                   attempted, delivered, removed>>

\* post_book returned True: the success notice, nothing is stored.
DialoguePostOk ==
    /\ Len(dialogue) = 1
    /\ dialogue[1].pc = "post"
    /\ dialogue' = <<>>
    /\ ev' = <<Ev("result", 0, "dialogue", NoRow, "True")>>
    /\ said' = Note(said, << Said("reply", 0, "Successfully posted") >>)
    /\ UNCHANGED <<queue, seq, clock, loopPc, loopNow, loopRows, loopIdx, inflight,
                   attempted, delivered, removed>>

\* post_book returned False: the handler awaits edit_message_text with its
\* failure notice; add_to_queue comes after that await.
DialoguePostFail ==
    /\ Len(dialogue) = 1
    /\ dialogue[1].pc = "post"
    /\ dialogue' = << [dialogue[1] EXCEPT !.pc = "notice"] >>
    /\ ev' = <<Ev("result", 0, "dialogue", NoRow, "False")>>
    /\ said' = Note(said, <<>>)
    /\ UNCHANGED <<queue, seq, clock, loopPc, loopNow, loopRows, loopIdx, inflight,
                   attempted, delivered, removed>>

\* The failure notice went out: add_to_queue(book), scheduled_time None.
DialogueNoticeSent ==
    /\ Len(dialogue) = 1
    /\ dialogue[1].pc = "notice"
    /\ seq < MaxId
    /\ queue' = add_to_queue(queue, seq, dialogue[1].book)
    /\ seq' = NextRowId(queue, seq)
    /\ dialogue' = <<>>
    /\ ev' = <<>>
    /\ said' = Note(said, << Said("reply", 0, "Failed to post, added to the queue"),
                             Said("INSERT", NextRowId(queue, seq), "") >>)
    /\ UNCHANGED <<clock, loopPc, loopNow, loopRows, loopIdx, inflight,
                   attempted, delivered, removed>>

\* edit_message_text raised (the network fault that failed the post, or a
\* refused edit): the exception leaves the handler, which nothing in it
\* catches, before add_to_queue.
DialogueNoticeRaises ==
    /\ Len(dialogue) = 1
    /\ dialogue[1].pc = "notice"
    /\ dialogue' = <<>>
    /\ ev' = <<>>
    /\ said' = Note(said, <<>>)
    /\ UNCHANGED <<queue, seq, clock, loopPc, loopNow, loopRows, loopIdx, inflight,
                   attempted, delivered, removed>>

\* --------------------------------------------------------------------- time
Tick ==
    /\ clock < MaxTime
    /\ clock' = clock + 1
    /\ ev' = <<>>
    /\ UNCHANGED <<dialogue, queue, seq, loopPc, loopNow, loopRows, loopIdx, inflight,
                   attempted, delivered, removed>>
    /\ said' = Note(said, <<>>)

\* The program with a channel that may or may not take a message; the
\* counters of the down-channel runs stay as they are.
Uncounted == UNCHANGED <<rounds, tries, boot>>

Next ==
    \/ \E via \in Vias : ShowQueue(via) /\ Uncounted
    \/ LoopCycle /\ Uncounted
    \/ LoopPublishOk /\ Uncounted
    \/ LoopPublishFail /\ Uncounted
    \/ \E args \in ArgLists : RemoveFromQueue(args) /\ Uncounted
    \/ \E args \in ArgLists : PostBookNow(args) /\ Uncounted
    \/ \E k \in 1..MaxPostNow : PostNowOk(k) /\ Uncounted
    \/ \E k \in 1..MaxPostNow : PostNowFail(k) /\ Uncounted
    \/ \E book \in PendingBooks : ConfirmAdd(book) /\ Uncounted
    \/ \E book \in PendingBooks, time_str \in TimeTexts :
          ReceiveScheduleTime(book, time_str) /\ Uncounted
    \/ Tick /\ Uncounted

Spec == Init /\ [][Next]_vars

\* The program with a channel that takes no message: send_message raises in
\* every post_book call.  Here the cycles and the loop's calls are counted
\* per record, for at most MaxCycles cycles with a given record due.
Calls(events, id) ==
    Cardinality({k \in 1..Len(events) :
        events[k].op = "publish" /\ events[k].by = "loop" /\ events[k].id = id})

Counted ==
    /\ tries' = [id \in 1..MaxId |-> tries[id] + Calls(ev', id)]
    /\ UNCHANGED boot

DownLoopCycle ==
    /\ \A id \in 1..MaxId : rounds[id] < MaxCycles
    /\ LoopCycle
    /\ rounds' = [id \in 1..MaxId |->
          IF /\ id \in Ids(queue)
             /\ queue[id].posted = 0
             /\ queue[id].scheduled_time # NULL
             /\ fromisoformat(queue[id].scheduled_time) <= clock
          THEN rounds[id] + 1 ELSE rounds[id]]
    /\ Counted

DownLoopPublishFail == LoopPublishFail /\ UNCHANGED rounds /\ Counted

NextDown ==
    \/ DownLoopCycle
    \/ DownLoopPublishFail
    \/ \E args \in ArgLists : RemoveFromQueue(args) /\ Uncounted
    \/ \E args \in ArgLists : PostBookNow(args) /\ Uncounted
    \/ \E k \in 1..MaxPostNow : PostNowFail(k) /\ Uncounted
    \/ \E book \in PendingBooks : ConfirmAdd(book) /\ Uncounted
    \/ \E book \in PendingBooks, time_str \in TimeTexts :
          ReceiveScheduleTime(book, time_str) /\ Uncounted
    \/ Tick /\ Uncounted

SpecDown == Init /\ [][NextDown]_vars

\* The operator's side on its own, within one sleep of the loop, with the
\* handlers' SQL statements and replies recorded.
NextAdmin ==
    \/ \E via \in Vias : ShowQueue(via) /\ Uncounted
    \/ \E args \in ArgLists : RemoveFromQueue(args) /\ Uncounted
    \/ \E args \in ArgLists : PostBookNow(args) /\ Uncounted
    \/ \E k \in 1..MaxPostNow : PostNowOk(k) /\ Uncounted
    \/ \E k \in 1..MaxPostNow : PostNowFail(k) /\ Uncounted
    \/ \E book \in PendingBooks : ConfirmAdd(book) /\ Uncounted
    \/ \E book \in PendingBooks, time_str \in TimeTexts :
          ReceiveScheduleTime(book, time_str) /\ Uncounted

SpecAdmin == InitAdmin /\ [][NextAdmin]_vars

\* The program in the runs in which no /postnow is sent: the loop, the
\* inserts, /queue and /remove.
NextAuto ==
    \/ \E via \in Vias : ShowQueue(via) /\ Uncounted
    \/ LoopCycle /\ Uncounted
    \/ LoopPublishOk /\ Uncounted
    \/ LoopPublishFail /\ Uncounted
    \/ \E args \in ArgLists : RemoveFromQueue(args) /\ Uncounted
    \/ \E book \in PendingBooks : ConfirmAdd(book) /\ Uncounted
    \/ \E book \in PendingBooks, time_str \in TimeTexts :
          ReceiveScheduleTime(book, time_str) /\ Uncounted
    \/ Tick /\ Uncounted

SpecAuto == Init /\ [][NextAuto]_vars

\* The program with the dialogue's own 'post_now'.  The handlers of the
\* conversation are blocking: while handle_confirmation awaits, the
\* application takes no further update, so no handler starts; the loop and
\* the /postnow handlers already running go on.
Dispatching == dialogue = <<>>

NextDialogue ==
    \/ \E book \in PendingBooks : DialoguePostNow(book) /\ Uncounted
    \/ DialoguePostOk /\ Uncounted
    \/ DialoguePostFail /\ Uncounted
    \/ DialogueNoticeSent /\ Uncounted
    \/ DialogueNoticeRaises /\ Uncounted
    \/ \E via \in Vias : Dispatching /\ ShowQueue(via) /\ Uncounted
    \/ LoopCycle /\ Uncounted
    \/ LoopPublishOk /\ Uncounted
    \/ LoopPublishFail /\ Uncounted
    \/ \E args \in ArgLists : Dispatching /\ RemoveFromQueue(args) /\ Uncounted
    \/ \E args \in ArgLists : Dispatching /\ PostBookNow(args) /\ Uncounted
    \/ \E k \in 1..MaxPostNow : PostNowOk(k) /\ Uncounted
    \/ \E k \in 1..MaxPostNow : PostNowFail(k) /\ Uncounted
    \/ \E book \in PendingBooks : Dispatching /\ ConfirmAdd(book) /\ Uncounted
    \/ \E book \in PendingBooks, time_str \in TimeTexts :
          Dispatching /\ ReceiveScheduleTime(book, time_str) /\ Uncounted
    \/ Tick /\ Uncounted

SpecDialogue == Init /\ [][NextDialogue]_vars

\* The loop is woken when its sleep is over, send_message returns in the end
\* and does not fail forever.
FairSpec ==
    /\ Spec
    /\ WF_vars(LoopCycle /\ Uncounted)
    /\ WF_vars((LoopPublishOk \/ LoopPublishFail) /\ Uncounted)
    /\ SF_vars(LoopPublishOk /\ Uncounted)

\* ------------------------------------------------------------------ queries
Published(events, by) ==
    {events[k].id : k \in {j \in 1..Len(events) :
                              events[j].op = "publish" /\ events[j].by = by}}

Results(events, ok) ==
    {events[k].id : k \in {j \in 1..Len(events) :
                              events[j].op = "result" /\ events[j].ok = ok}}

RowIds(rows) == {rows[k].id : k \in 1..Len(rows)}

\* A stored record whose scheduled time has come.
TimeCame(q, id, now) ==
    /\ id \in Ids(q)
    /\ q[id].scheduled_time # NULL
    /\ fromisoformat(q[id].scheduled_time) <= now

\* The due records of the specification: stored, not posted, time come.
Due(q, now) == {id \in Ids(q) : q[id].posted = 0 /\ TimeCame(q, id, now)}

LoopStep == LoopCycle \/ LoopPublishOk \/ LoopPublishFail

\* ------------------------------------------------------------------ restart
\* init_db: CREATE TABLE IF NOT EXISTS leaves a table that exists as it is.
init_db(q) == q

\* What earlier runs can leave in the file: n books scheduled through the
\* dialogue and not posted yet.
RECURSIVE Left(_)
Left(n) ==
    IF n = 0 THEN { <<>> }
    ELSE { add_to_queue(q, n - 1,
              [book EXCEPT !.scheduled_time = isoformat(strptime(time_str).value)]) :
           q \in Left(n - 1), book \in PendingBooks,
           time_str \in {t \in TimeTexts : ~strptime(t).raised} }

\* main() on a file that earlier runs left: the table is kept, the loop's
\* task is created and nothing else is running.
InitRestart ==
    /\ queue \in {init_db(q) : q \in Left(MaxLeft)}
    /\ seq = MaxLeft
    /\ clock = 0
    /\ loopPc = "sleep"
    /\ loopNow = 0
    /\ loopRows = <<>>
    /\ loopIdx = 0
    /\ inflight = <<>>
    /\ ev = <<>>
    /\ attempted = <<>>
    /\ delivered = {}
    /\ removed = {}
    /\ rounds = [id \in 1..MaxId |-> 0]
    /\ tries = [id \in 1..MaxId |-> 0]
    /\ dialogue = <<>>
    /\ said = Off
    /\ boot = [owed |-> Due(queue, clock), cycle |-> "first"]

\* The process stops at any moment and main() runs again: the file and its
\* key sequence are kept; the loop's task, the handlers in flight and the
\* dialogue are gone.  A message the loop was sending when the process
\* stopped has reached the channel or has not; mark_posted did not run.
Restart ==
    /\ \E sent \in BOOLEAN :
          delivered' = IF loopPc = "await" /\ sent
                       THEN delivered \cup {loopRows[loopIdx].id}
                       ELSE delivered
    /\ queue' = init_db(queue)
    /\ loopPc' = "sleep"
    /\ loopNow' = 0
    /\ loopRows' = <<>>
    /\ loopIdx' = 0
    /\ attempted' = <<>>
    /\ inflight' = <<>>
    /\ dialogue' = <<>>
    /\ ev' = <<>>
    /\ said' = Note(said, <<>>)
    /\ boot' = [owed |-> Due(queue', clock), cycle |-> "first"]
    /\ UNCHANGED <<seq, clock, removed, rounds, tries>>

\* The loop's steps with the history of the first cycle kept: a record
\* handed to post_book is owed no more, and the first cycle is over when the
\* loop reaches its sleep or its task ends.
Recovering ==
    /\ boot' = IF boot.cycle = "first"
               THEN [owed |-> boot.owed \ Published(ev', "loop"),
                     cycle |-> IF loopPc' = "await" THEN "first" ELSE "over"]
               ELSE boot
    /\ UNCHANGED <<rounds, tries>>

\* The task of the loop is created before run_polling, so its first cycle
\* runs up to its first await before any update is dispatched.
Polling == ~(boot.cycle = "first" /\ loopPc = "sleep")

\* The program across stops and starts: the loop, /remove and the clock.
NextRestart ==
    \/ Restart
    \/ LoopCycle /\ Recovering
    \/ LoopPublishOk /\ Recovering
    \/ LoopPublishFail /\ Recovering
    \/ \E args \in ArgLists : Polling /\ RemoveFromQueue(args) /\ Uncounted
    \/ Tick /\ Uncounted

SpecRestart == InitRestart /\ [][NextRestart]_vars

\* ------------------------------------------------------------------- claims

\* C1: post_book is never called for a record whose stored posted flag is
\* already 1 at the moment of the call, by the loop or by /postnow.
C1_NeverPublishPosted ==
    \A k \in 1..Len(ev) : ev[k].op = "publish" => ev[k].posted # 1

\* C2: a record's posted flag is 1 only if an earlier post_book call for it
\* returned True, and a flag that is 1 never goes back to 0 while the record
\* exists.
C2_PostedOnlyAfterSuccess ==
    /\ [](\A id \in Ids(queue) : queue[id].posted = 1 => id \in delivered)
    /\ [][\A id \in Ids(queue) \cap Ids(queue') :
             queue[id].posted = 1 => queue'[id].posted = 1]_vars

C2_Witness ==
    \E id \in Ids(queue) :
        /\ queue[id].posted = 1
        /\ id \in delivered
        /\ \E k \in 1..Len(ev) : ev[k].op = "result" /\ ev[k].id = id /\ ev[k].posted = 1

\* C3: under fair scheduling every stored record that is due and unposted,
\* whose preview can be built, is eventually posted by the loop or removed.
C3_DueEventuallyPosted ==
    \A id \in 1..MaxId :
        []((/\ id \in Due(queue, clock)
            /\ ~PreviewRaises(BookData(queue[id])))
           => <>(id \notin Ids(queue) \/ queue[id].posted = 1))

\* C4: a row of the cycle's snapshot that /remove deleted while the loop was
\* awaiting an earlier post raises no error in the loop: the loop is never
\* ended by an exception at a row whose record /remove deleted.
C4_RemovedRowRaisesNothing ==
    ~(loopPc = "crashed" /\ loopRows[loopIdx].id \in removed)

\* The rows a stretch of the loop works on, the row it starts after, its
\* `now`, and the row it reaches.
C5_Rows == IF loopPc = "sleep" THEN SelectPending(queue) ELSE loopRows

C5_From == IF loopPc = "sleep" THEN 0 ELSE loopIdx

C5_Now == IF loopPc = "sleep" THEN clock ELSE loopNow

C5_Reached ==
    IF loopPc' = "sleep" THEN Len(C5_Rows) ELSE loopIdx'

\* C5: a failed post never ends the cycle: after every stretch of the loop,
\* each row of the snapshot that the stretch went past, and whose record is
\* stored with its time come, was handed to post_book in that stretch; the
\* stretch stops short of the end of the rows only to await a post, or at a
\* row whose record is gone.
C5_FailureDoesNotAbort ==
    [][LoopStep =>
        /\ C5_Reached > C5_From \/ (loopPc' = "sleep" /\ C5_Reached = Len(C5_Rows))
        /\ \A i \in (C5_From + 1)..C5_Reached :
              TimeCame(queue', C5_Rows[i].id, C5_Now)
                  => C5_Rows[i].id \in Published(ev', "loop")
        /\ loopPc' = "crashed" => C5_Rows[loopIdx'].id \notin Ids(queue')]_vars

C5_Witness ==
    /\ loopPc = "await"
    /\ \E k \in 1..(Len(attempted) - 1) : attempted[k].result = "False"

\* C6: once /remove has deleted a record, no later state of the table holds
\* a record with that id.
C6_RemovedStaysRemoved == removed \cap Ids(queue) = {}

C6_Witness ==
    \E k \in 1..Len(ev) :
        /\ ev[k].op = "result"
        /\ ev[k].ok = "True"
        /\ ev[k].id \in removed

\* C7: what a cycle selects at its `now` is exactly the stored records with
\* posted = 0 and a non-null scheduled time <= now; and no call of the loop
\* is ever for a record whose scheduled time is null or still to come.
C7_SelectsExactlyDue ==
    /\ [][LoopCycle =>
            /\ Published(ev', "loop") \subseteq Due(queue, clock)
            /\ loopPc' = "sleep" => Due(queue, clock) \subseteq Published(ev', "loop")
            /\ loopPc' = "await" =>
                  /\ Due(queue, clock) \subseteq RowIds(loopRows')
                  /\ \A i \in 1..Len(loopRows') :
                        /\ loopRows'[i].id \in Ids(queue)
                        /\ queue[loopRows'[i].id].posted = 0
                        /\ queue[loopRows'[i].id].scheduled_time # NULL
                        /\ (i <= loopIdx' /\ loopRows'[i].id \in Due(queue, clock))
                              => loopRows'[i].id \in Published(ev', "loop")]_vars
    /\ [](\A id \in Published(ev, "loop") : TimeCame(queue, id, clock))

C7_Witness ==
    /\ loopPc = "await"
    /\ Len(attempted) = 1
    /\ \E id \in Ids(queue) : id \notin RowIds(loopRows) /\ queue[id].scheduled_time = NULL

\* C8: a record whose post succeeded and was marked posted is in the
\* snapshot of no cycle that starts later.
C8_PostedNeverDueAgain ==
    [][LoopCycle =>
          /\ Published(ev', "loop") \cap delivered = {}
          /\ RowIds(loopRows') \cap delivered = {}]_vars

C8_Witness ==
    /\ loopPc = "await"
    /\ Len(attempted) = 1
    /\ \E id \in delivered : id \in Ids(queue) /\ TimeCame(queue, id, loopNow)

\* C9: a step in which a post failed leaves every record unchanged, the
\* failed one included, except the records whose post succeeded in that step.
C9_FailureLeavesStore ==
    [][Results(ev', "False") # {} =>
          /\ Ids(queue') = Ids(queue)
          /\ \A id \in Ids(queue) \ Results(ev', "True") : queue'[id] = queue[id]
          /\ Results(ev', "True") = {} => queue' = queue]_vars

C9_Witness ==
    \E k \in 1..Len(ev) :
        /\ ev[k].op = "result" /\ ev[k].ok = "False" /\ ev[k].by = "postnow"
        /\ Len(ev) = 1
        /\ ev[k].id \in Due(queue, clock)

\* C10: with a channel that is down, whenever the loop is between cycles,
\* every record inserted and not removed is still listed and not posted, and
\* the loop has called post_book for it exactly once for each cycle that
\* began with the record due.
C10_OncePerCycleForever ==
    loopPc = "sleep" =>
        \A id \in (1..seq) \ removed :
            /\ id \in RowIds(get_queue(queue))
            /\ queue[id].posted = 0
            /\ tries[id] = rounds[id]

C10_Witness ==
    /\ loopPc = "sleep"
    /\ \E id \in Ids(queue) :
          /\ rounds[id] = MaxCycles
          /\ tries[id] = MaxCycles
          /\ queue[id].posted = 0
          /\ ~PreviewRaises(BookData(queue[id]))

\* The attempts of the running cycle before the stretch at hand.
C11_Attempts == IF loopPc = "sleep" THEN <<>> ELSE attempted

C11_Tried == {C11_Attempts[k].id : k \in 1..Len(C11_Attempts)}

C11_Succeeded ==
    {C11_Attempts[k].id : k \in {j \in 1..Len(C11_Attempts) :
                                     C11_Attempts[j].result = "True"}}

\* C11: a record that /remove deleted before a cycle fetched its rows is in
\* the rows of no cycle from then on and the loop never calls post_book for
\* it; and when a cycle ends, every other row of its snapshot whose record is
\* stored with its time come was handed to post_book in that cycle, and is
\* marked posted if its post succeeded.
C11_RemovedSkippedOthersPosted ==
    /\ [](Published(ev, "loop") \cap removed = {})
    /\ [][LoopCycle =>
            /\ RowIds(SelectPending(queue)) \cap removed = {}
            /\ RowIds(loopRows') \cap removed = {}]_vars
    /\ [][(LoopStep /\ loopPc' = "sleep") =>
            \A i \in 1..Len(C5_Rows) :
               LET id == C5_Rows[i].id
               IN /\ (id \in Ids(queue') /\ TimeCame(queue', id, C5_Now))
                        => id \in C11_Tried \cup Published(ev', "loop")
                  /\ (/\ id \in Ids(queue')
                      /\ id \in C11_Succeeded \cup Results(ev', "True"))
                        => queue'[id].posted = 1]_vars

\* A cycle has just fetched its rows after a /remove, and awaits the post of
\* a record that was not removed.
C11_Witness ==
    /\ removed # {}
    /\ loopPc = "await"
    /\ Len(ev) = 1
    /\ ev[1].op = "publish" /\ ev[1].by = "loop"
    /\ ev[1].id \notin removed
    /\ \E r \in removed : r < ev[1].id

\* The id that a handler is called with, when its argument is an integer.
C12_Id(args) == IF Len(args) = 0 THEN ValueError ELSE int(args[1])

\* A stored record's schedule seen from the clock: "null", "future" or "past".
C12_Schedule(q, id, now) ==
    IF q[id].scheduled_time = NULL THEN "null"
    ELSE IF fromisoformat(q[id].scheduled_time) > now THEN "future"
    ELSE "past"

\* C12: in every state, /postnow with the id of a stored record calls
\* post_book for that record, whatever its scheduled time is; when the
\* post returns True and the record is still stored, its posted flag is 1;
\* and the loop never calls post_book for a record whose scheduled time is
\* still to come.
C12_PostNowIgnoresSchedule ==
    /\ [](\A id \in Ids(queue) :
            id \in Published(post_book_now(queue, << <<Digits[id + 1]>> >>).ev,
                             "postnow"))
    /\ [][\A k \in 1..MaxPostNow :
            (PostNowOk(k) /\ inflight[k].id \in Ids(queue))
            => queue'[inflight[k].id].posted = 1]_vars
    /\ [](\A id \in Published(ev, "loop") :
            /\ id \in Ids(queue)
            /\ C12_Schedule(queue, id, clock) = "past")

\* A record posted by /postnow, and marked, before its scheduled time.
C12_Witness ==
    /\ Len(ev) = 1
    /\ ev[1].op = "result" /\ ev[1].by = "postnow" /\ ev[1].ok = "True"
    /\ ev[1].posted = 0
    /\ ev[1].id \in Ids(queue)
    /\ queue[ev[1].id].posted = 1
    /\ C12_Schedule(queue, ev[1].id, clock) = "future"

\* C13: every record the dialogue inserts has a scheduled time: no stored
\* record has scheduled_time NULL.
C13_NoNullSchedule ==
    \A id \in Ids(queue) : queue[id].scheduled_time # NULL

\* mark_posted applied n times in a row.
RECURSIVE C14_Times(_, _, _)
C14_Times(q, id, n) ==
    IF n = 0 THEN q ELSE mark_posted(C14_Times(q, id, n - 1), id)

\* C14: in every state of the table and for every id, with or without a row,
\* mark_posted applied 1..MaxMarks times gives the table that one application
\* gives, and for an id without a row that is the table as it was; and a
\* step of the program that marks only records already marked leaves the
\* table as it was.
C14_MarkPostedIdempotent ==
    /\ [](\A id \in (0 - 1)..(MaxId + 1), n \in 1..MaxMarks :
            /\ C14_Times(queue, id, n) = mark_posted(queue, id)
            /\ id \notin Ids(queue) => mark_posted(queue, id) = queue)
    /\ [][(/\ Results(ev', "True") # {}
           /\ \A k \in 1..Len(ev') :
                 (ev'[k].op = "result" /\ ev'[k].ok = "True") => ev'[k].posted # 0)
          => queue' = queue]_vars

\* A second successful /postnow of the same record has marked it again.
C14_Witness ==
    /\ Len(ev) = 1
    /\ ev[1].op = "result" /\ ev[1].by = "postnow" /\ ev[1].ok = "True"
    /\ ev[1].posted = 1
    /\ queue[ev[1].id].posted = 1
    /\ \E other \in Ids(queue) : queue[other].posted = 0

\* C15: a /remove whose argument is an integer deletes the row with that id
\* if there is one, posted or not, and leaves every other row as it was; if
\* there is none the table stays as it was; either way the handler executes
\* its DELETE without an error and replies that the book was removed.
C15_DeleteExactlyOne ==
    [][\A args \in ArgLists :
         (RemoveFromQueue(args) /\ ~C12_Id(args).raised) =>
            LET id == C12_Id(args).value
            IN /\ Ids(queue') = Ids(queue) \ {id}
               /\ \A i \in Ids(queue') : queue'[i] = queue[i]
               /\ id \notin Ids(queue) => queue' = queue
               /\ said' = << Said("DELETE", id, ""),
                             Said("reply", id, "Removed book") >>]_vars

\* A posted record has been removed while another record stays.
C15_Witness ==
    /\ Len(said) = 2
    /\ said[1].op = "DELETE"
    /\ said[2].text = "Removed book"
    /\ said[1].id \in removed \cap delivered
    /\ Ids(queue) # {}

\* The rows that the show_queue of the last step wrote out.
C16_Shown ==
    IF /\ Len(said) = 2
       /\ said[1].op = "SELECT"
       /\ said[2].text \in {"Queue is empty", "Current Queue"}
    THEN << said[2].rows >>
    ELSE <<>>

\* C16: whatever inserts, mark_posted and deletes came before, the list that
\* show_queue gets from get_queue holds exactly the records inserted and not
\* deleted, each once, in ascending id order, each with its stored title,
\* author, posted flag and mode.
C16_ListAllInOrder ==
    \A rows \in {C16_Shown[k] : k \in 1..Len(C16_Shown)} :
        /\ RowIds(rows) = (1..seq) \ removed
        /\ Len(rows) = Cardinality((1..seq) \ removed)
        /\ \A k \in 1..(Len(rows) - 1) : rows[k].id < rows[k + 1].id
        /\ \A k \in 1..Len(rows) :
              /\ rows[k].id \in Ids(queue)
              /\ rows[k].title = queue[rows[k].id].title
              /\ rows[k].author = queue[rows[k].id].author
              /\ rows[k].posted = queue[rows[k].id].posted
              /\ rows[k].mode = queue[rows[k].id].mode

\* A list written out after an insert, a removal and a successful post.
C16_Witness ==
    /\ Len(C16_Shown) = 1
    /\ removed # {}
    /\ \E k \in 1..Len(C16_Shown[1]) : C16_Shown[1][k].posted = 1

\* C17: the id an insert assigns is greater than every id assigned before
\* it, those of stored records and those of records removed since; no step
\* changes the id of a stored record, and each insert assigns one new id.
C17_IdsNeverReused ==
    /\ [][\A id \in Ids(queue') \ Ids(queue) :
            /\ \A old \in Ids(queue) \cup removed : id > old
            /\ Ids(queue') = Ids(queue) \cup {id}
            /\ \A old \in Ids(queue) : queue'[old] = queue[old]]_vars
    /\ [](Ids(queue) \cup removed = 1..seq)

\* An insert right after the removal of the record with the largest id.
C17_Witness ==
    /\ Len(said) = 2
    /\ said[1].op = "INSERT"
    /\ said[1].id \in Ids(queue)
    /\ said[1].id - 1 \in removed

\* C18: a /postnow whose argument is an integer that is the id of no stored
\* record reads the table once, replies "Book not found" and does nothing
\* else: no post_book call, no post left in flight, no mark_posted, the table
\* as it was.
C18_PostNowNotFound ==
    [][\A args \in ArgLists :
         (/\ PostBookNow(args)
          /\ ~C12_Id(args).raised
          /\ C12_Id(args).value \notin Ids(queue))
         => /\ said' = << Said("SELECT", C12_Id(args).value, ""),
                          Said("reply", 0, "Book not found") >>
            /\ ev' = <<>>
            /\ inflight' = inflight
            /\ queue' = queue
            /\ delivered' = delivered]_vars

\* /postnow with the id of a removed record, beside a stored record.
C18_Witness ==
    /\ Len(said) = 2
    /\ said[1].op = "SELECT"
    /\ said[2].text = "Book not found"
    /\ said[1].id \in removed
    /\ Ids(queue) # {}

\* An argument list with no argument, or whose first argument is not an
\* optionally signed run of decimal digits.
C19_Malformed(args) ==
    \/ Len(args) = 0
    \/ Len(args[1]) = 0
    \/ \E k \in 2..Len(args[1]) : ~IsDigit(args[1][k])
    \/ ~IsDigit(args[1][1]) /\ args[1][1] \notin {"-", "+"}
    \/ ~IsDigit(args[1][1]) /\ Len(args[1]) = 1

\* C19: /remove and /postnow with no argument, or with one that is not an
\* integer, send one usage or invalid-id message and do nothing else: no SQL
\* statement, no post_book call, nothing left in flight, the table as it was.
C19_MalformedRejected ==
    [][\A args \in ArgLists :
         ((RemoveFromQueue(args) \/ PostBookNow(args)) /\ C19_Malformed(args))
         => /\ Len(said') = 1
            /\ said'[1].op = "reply"
            /\ said'[1].text \in
                  {"Usage: /remove [id]", "Usage: /postnow [id]", "Invalid ID"}
            /\ ev' = <<>>
            /\ inflight' = inflight
            /\ queue' = queue
            /\ removed' = removed]_vars

\* An invalid-id reply with records stored.
C19_Witness ==
    /\ Len(said) = 1
    /\ said[1].text = "Invalid ID"
    /\ Ids(queue) # {}

\* C20: /remove checks that its id is a positive integer before it deletes:
\* no DELETE is executed with an id that is zero or negative, and no
\* "Removed book" reply is sent for such an id.
C20_RemoveValidatesPositive ==
    \A k \in 1..Len(said) :
        (said[k].op = "DELETE" \/ said[k].text = "Removed book") => said[k].id > 0

\* The post_book call at place k of the events of a step has its result
\* later in the same step.
C21_Answered(events, k) ==
    \E j \in (k + 1)..Len(events) :
        /\ events[j].op = "result"
        /\ events[j].id = events[k].id
        /\ events[j].by = events[k].by
        /\ events[j].ok \in {"True", "False"}

\* C21: post_book returns True or False and never raises: each call either
\* returns in the step that makes it or is left awaiting send_message, and
\* the step that ends the wait carries its result; a record whose preview
\* cannot be built (a reflection with no quotes) never gets True; and the
\* loop's task is never ended at a row whose record is still stored.
C21_PostBookNeverRaises ==
    /\ [](\A k \in 1..Len(ev) :
            ev[k].op = "result" =>
               /\ ev[k].ok \in {"True", "False"}
               /\ (ev[k].ok = "True" /\ ev[k].id \in Ids(queue))
                     => ~PreviewRaises(BookData(queue[ev[k].id])))
    /\ [][\A k \in 1..Len(ev') :
            ev'[k].op = "publish" =>
               \/ C21_Answered(ev', k)
               \/ /\ ev'[k].by = "loop"
                  /\ k = Len(ev')
                  /\ loopPc' = "await"
                  /\ loopRows'[loopIdx'].id = ev'[k].id
               \/ /\ ev'[k].by = "postnow"
                  /\ Len(inflight') = Len(inflight) + 1
                  /\ inflight'[Len(inflight')].id = ev'[k].id]_vars
    /\ [][(loopPc = "await" /\ (loopPc' # "await" \/ loopIdx' # loopIdx)) =>
            /\ Len(ev') >= 1
            /\ ev'[1].op = "result" /\ ev'[1].by = "loop"
            /\ ev'[1].id = loopRows[loopIdx].id
            /\ ev'[1].ok \in {"True", "False"}]_vars
    /\ [][Len(inflight') < Len(inflight) =>
            /\ Len(ev') = 1
            /\ ev'[1].op = "result" /\ ev'[1].by = "postnow"
            /\ ev'[1].ok \in {"True", "False"}
            /\ \E k \in 1..Len(inflight) : inflight[k].id = ev'[1].id]_vars
    /\ [](loopPc = "crashed" => loopRows[loopIdx].id \notin Ids(queue))

\* The loop got False for a due reflection with no quotes and went on to
\* await the post of the next row.
C21_Witness ==
    /\ loopPc = "await"
    /\ Len(ev) = 3
    /\ ev[2].op = "result" /\ ev[2].ok = "False" /\ ev[2].by = "loop"
    /\ ev[2].id \in Ids(queue)
    /\ PreviewRaises(BookData(queue[ev[2].id]))
    /\ ev[3].op = "publish"

\* C22: no call of show_queue, remove_from_queue or post_book_now ends
\* without a reply to the operator: what a handler did in a step holds a
\* reply, unless the handler is left awaiting post_book, and the step that
\* ends that wait holds one.
C22_AlwaysReplies ==
    \/ said = <<>>
    \/ \E k \in 1..Len(said) : said[k].op = "reply" /\ said[k].text # ""
    \/ /\ Len(ev) = 1
       /\ ev[1].op = "publish" /\ ev[1].by = "postnow"
       /\ \E k \in 1..Len(inflight) : inflight[k].id = ev[1].id

\* C23: no two post_book calls for the same record are awaiting send_message
\* at once: not two /postnow handlers, and not the loop and a /postnow
\* handler.
C23_NoTwoPostsInFlight ==
    /\ \A i, j \in 1..Len(inflight) : i # j => inflight[i].id # inflight[j].id
    /\ loopPc = "await" =>
          \A k \in 1..Len(inflight) : inflight[k].id # loopRows[loopIdx].id

\* C24: in the runs without /postnow, no post_book call of the loop returns
\* True for a record for which a call has returned True before, whatever
\* inserts and removes come between the loop's steps; and within one step no
\* record gets True twice.
C24_LoopPostsAtMostOnce ==
    /\ [][Results(ev', "True") \cap delivered = {}]_vars
    /\ [](Cardinality({k \in 1..Len(ev) : ev[k].op = "result" /\ ev[k].ok = "True"})
            <= 1)

\* A later cycle has started with a posted record stored and its time come,
\* and awaits the post of another record.
C24_Witness ==
    /\ loopPc = "await"
    /\ Len(ev) = 1
    /\ ev[1].op = "publish" /\ ev[1].by = "loop"
    /\ \E id \in delivered :
          /\ id \in Ids(queue)
          /\ queue[id].posted = 1
          /\ TimeCame(queue, id, loopNow)
          /\ id # ev[1].id

C25_IsLoopCall(e) == e.op = "publish" /\ e.by = "loop"

\* The ids of the loop's post_book calls among the events of a step, in order.
C25_Calls(events) ==
    LET calls == SelectSeq(events, C25_IsLoopCall)
    IN [k \in 1..Len(calls) |-> calls[k].id]

\* The ids the running cycle has called post_book for before this step.
C25_Before == [k \in 1..Len(C11_Attempts) |-> C11_Attempts[k].id]

\* C25: the post_book calls of one cycle, those of earlier steps of the
\* cycle followed by those of the step at hand, are for rows of the snapshot
\* fetched when the cycle began, in strictly ascending id order (so none
\* twice); the snapshot of a running cycle never changes, so a record
\* inserted meanwhile is not called for before the next cycle.
C25_AscendingOncePerCycle ==
    /\ [][Published(ev', "loop") # {} =>
            LET all == C25_Before \o C25_Calls(ev')
            IN /\ \A k \in 1..(Len(all) - 1) : all[k] < all[k + 1]
               /\ \A k \in 1..Len(all) : all[k] \in RowIds(C5_Rows)
               /\ \A k \in 1..(Len(C5_Rows) - 1) : C5_Rows[k].id < C5_Rows[k + 1].id]_vars
    /\ [][(loopPc # "sleep" /\ loopPc' # "sleep") => loopRows' = loopRows]_vars

\* A cycle in its second post_book call.
C25_Witness ==
    /\ loopPc = "await"
    /\ Len(attempted) = 2
    /\ attempted[1].id < attempted[2].id
    /\ attempted[1].result \in {"True", "False"}

\* The scheduled times a book can be handed to add_to_queue with.
C26_Times == {NULL} \cup {isoformat(t) : t \in 0..MaxTime}

\* A row holds what the dialogue's book holds, the quotes as a list again.
C26_Holds(row, book) ==
    /\ row.chat_id = book.chat_id
    /\ row.title = book.title
    /\ row.author = book.author
    /\ json_loads(row.quotes) = book.quotes
    /\ row.mode = book.mode
    /\ row.scheduled_time = book.scheduled_time

\* C26: a row is inserted with the very values of the book handed to
\* add_to_queue (the quotes the same list, in the same order, when read back)
\* and posted = 0; from then on, as long as the record is stored, no step
\* changes its id, chat_id, title, author, quotes, mode or scheduled_time;
\* and the posted flag changes only for a record whose post returned True in
\* that step.
C26_FieldsNeverChange ==
    /\ [](\A book \in PendingBooks, t \in C26_Times :
            LET b == [book EXCEPT !.scheduled_time = t]
                q2 == add_to_queue(queue, seq, b)
            IN /\ Ids(q2) = Ids(queue) \cup {NextRowId(queue, seq)}
               /\ C26_Holds(q2[NextRowId(queue, seq)], b)
               /\ q2[NextRowId(queue, seq)].posted = 0
               /\ \A id \in Ids(queue) : q2[id] = queue[id])
    /\ [][\A id \in Ids(queue') \ Ids(queue) :
            /\ queue'[id].posted = 0
            /\ \E book \in PendingBooks, t \in C26_Times :
                  C26_Holds(queue'[id], [book EXCEPT !.scheduled_time = t])]_vars
    /\ [][\A id \in Ids(queue) \cap Ids(queue') :
            /\ [queue'[id] EXCEPT !.posted = 0] = [queue[id] EXCEPT !.posted = 0]
            /\ queue'[id].posted # queue[id].posted => id \in Results(ev', "True")]_vars

\* A scheduled book with two quotes is stored and posted after another
\* record was removed.
C26_Witness ==
    /\ removed # {}
    /\ \E id \in Ids(queue) :
          /\ queue[id].posted = 1
          /\ json_loads(queue[id].quotes) = <<"q1", "q2">>
          /\ queue[id].scheduled_time \in C26_Times \ {NULL}

\* The records a step inserts.
C27_Inserted == Ids(queue') \ Ids(queue)

\* C27: the dialogue's 'post_now' stores nothing when its post returns True;
\* when its post returns False the handler ends having inserted exactly one
\* record, with posted = 0 and scheduled_time NULL; and the loop never calls
\* post_book for a record whose scheduled_time is NULL.
C27_FallbackInsert ==
    /\ [][(\E k \in 1..Len(ev') : ev'[k].by = "dialogue" /\ ev'[k].ok = "True")
            => (queue' = queue /\ dialogue' = <<>>)]_vars
    /\ [][(/\ Len(dialogue) = 1
           /\ dialogue[1].pc = "notice"
           /\ dialogue' = <<>>)
          => /\ Cardinality(C27_Inserted) = 1
             /\ \A id \in C27_Inserted :
                   /\ queue'[id].posted = 0
                   /\ queue'[id].scheduled_time = NULL
                   /\ C26_Holds(queue'[id], dialogue[1].book)]_vars
    /\ [](\A id \in Published(ev, "loop") \cap Ids(queue) :
            queue[id].scheduled_time # NULL)

\* C28: starting the process again leaves the table as it was, and every
\* record that was due and unposted when it stopped (a record whose message
\* had reached the channel before mark_posted ran among them) and is still
\* in the table has been handed to post_book when the loop's first cycle
\* after the start is over.
C28_RecoveredInFirstCycle ==
    /\ [][Restart => (queue' = queue /\ boot'.owed = Due(queue', clock'))]_vars
    /\ [](boot.owed \subseteq Due(queue, clock) \cup removed)
    /\ [](boot.cycle = "over" => boot.owed \cap Ids(queue) = {})

====
